---- MODULE Spec2Model ----
(***************************************************************************)
(* Model of the MCQ quiz application (src/quiz_app.py): the answer         *)
(* resolution helpers as operators over character sequences, and the quiz  *)
(* session held in st.session_state as a state machine with one action per *)
(* script run (a button click, a widget change, or a timer rerun).         *)
(*                                                                         *)
(* Texts are sequences of one-character strings.  A spreadsheet cell is    *)
(* either such a sequence or NaN (an empty cell).  Python's None is None   *)
(* for texts and NoLetter for option letters.                              *)
(***************************************************************************)
EXTENDS Integers, Sequences, FiniteSets, TLC

\* an empty spreadsheet cell, and Python's None where a text is expected
NaN == <<"NaN">>
None == <<"None">>
\* None where an option letter is expected
NoLetter == "None"

----------------------------------------------------------------------------
(* Characters and Python's str methods *)

UpperAlpha == <<"A","B","C","D","E","F","G","H","I","J","K","L","M",
                "N","O","P","Q","R","S","T","U","V","W","X","Y","Z">>
LowerAlpha == <<"a","b","c","d","e","f","g","h","i","j","k","l","m",
                "n","o","p","q","r","s","t","u","v","w","x","y","z">>

AlphaRange == 1..26

IsUpperChar(c) == \E k \in AlphaRange : UpperAlpha[k] = c
IsLowerChar(c) == \E k \in AlphaRange : LowerAlpha[k] = c

\* str.lower() / str.upper() on one character
LowerChar(c) == IF IsUpperChar(c)
                THEN LowerAlpha[CHOOSE k \in AlphaRange : UpperAlpha[k] = c]
                ELSE c
UpperChar(c) == IF IsLowerChar(c)
                THEN UpperAlpha[CHOOSE k \in AlphaRange : LowerAlpha[k] = c]
                ELSE c

lower(s) == [k \in 1..Len(s) |-> LowerChar(s[k])]
upper(s) == [k \in 1..Len(s) |-> UpperChar(s[k])]

\* whitespace as seen by str.strip(), str.split() and the regex class \s
IsSpace(c) == c \in {" ", "\t"}

RECURSIVE lstrip(_, _)
lstrip(s, chars) == IF s # <<>> /\ Head(s) \in chars THEN lstrip(Tail(s), chars) ELSE s

RECURSIVE rstrip(_, _)
rstrip(s, chars) == IF s # <<>> /\ s[Len(s)] \in chars
                    THEN rstrip(SubSeq(s, 1, Len(s) - 1), chars)
                    ELSE s

Whitespace == {" ", "\t"}

strip(s) == rstrip(lstrip(s, Whitespace), Whitespace)

\* length of the leading run of non-whitespace characters
RECURSIVE WordLen(_)
WordLen(s) == IF s = <<>> \/ IsSpace(Head(s)) THEN 0 ELSE 1 + WordLen(Tail(s))

\* " ".join(text.split())
RECURSIVE join_split(_)
join_split(s) ==
    LET t == lstrip(s, Whitespace) IN
    IF t = <<>> THEN <<>>
    ELSE LET n    == WordLen(t)
             rest == lstrip(SubSeq(t, n + 1, Len(t)), Whitespace)
         IN IF rest = <<>> THEN SubSeq(t, 1, n)
            ELSE SubSeq(t, 1, n) \o <<" ">> \o join_split(rest)

\* a in b  (substring test on str)
contains(a, b) == \E k \in 0..(Len(b) - Len(a)) : SubSeq(b, k + 1, k + Len(a)) = a

\* position of the first ":" in s, 0 when there is none
ColonPos(s) == IF \E k \in 1..Len(s) : s[k] = ":"
               THEN CHOOSE k \in 1..Len(s) : s[k] = ":" /\ \A j \in 1..(k - 1) : s[j] # ":"
               ELSE 0

\* s.split(":", 1)[0] and s.split(":", 1)[1]
split_head(s) == IF ColonPos(s) = 0 THEN s ELSE SubSeq(s, 1, ColonPos(s) - 1)
split_tail(s) == SubSeq(s, ColonPos(s) + 1, Len(s))

\* str(x) of a cell: an empty cell prints as "nan"
str(x) == IF x = NaN THEN <<"n", "a", "n">> ELSE x

----------------------------------------------------------------------------
(* Helpers of quiz_app.py *)

LETTERS == <<"A", "B", "C", "D">>
LetterSet == {"A", "B", "C", "D"}

TrailingPunct == {".", ",", ";", ":"}

normalize_text(s) ==
    IF s = NaN THEN <<>>
    ELSE rstrip(join_split(lower(strip(s))), TrailingPunct)

OPTION == <<"O", "P", "T", "I", "O", "N">>

\* re.search(r"OPTION\s*([A-D])", s): the letter of the leftmost match,
\* None when the pattern matches nowhere
OptionMatchAt(s, p) ==
    /\ p + 5 <= Len(s)
    /\ SubSeq(s, p, p + 5) = OPTION
    /\ LET after == lstrip(SubSeq(s, p + 6, Len(s)), Whitespace)
       IN after # <<>> /\ Head(after) \in LetterSet

option_search(s) ==
    IF \E p \in 1..Len(s) : OptionMatchAt(s, p)
    THEN LET p == CHOOSE q \in 1..Len(s) :
                      OptionMatchAt(s, q) /\ \A r \in 1..(q - 1) : ~OptionMatchAt(s, r)
         IN Head(lstrip(SubSeq(s, p + 6, Len(s)), Whitespace))
    ELSE NoLetter

\* extract_letter without the conversion to upper case
extract_letter_case_sensitive(s) ==
    IF s = None THEN NoLetter
    ELSE LET s_str == strip(str(s)) IN
         IF Len(s_str) = 1 /\ s_str[1] \in LetterSet THEN s_str[1]
         ELSE IF s_str # <<>> /\ s_str[1] \in LetterSet THEN s_str[1]
         ELSE option_search(s_str)

extract_letter(s) ==
    IF s = None THEN NoLetter
    ELSE LET s_str == upper(strip(str(s))) IN
         IF Len(s_str) = 1 /\ s_str[1] \in LetterSet THEN s_str[1]
         \* re.match(r"^([A-D])[\.\:\)\-\s]*", s_str): the delimiter class is
         \* starred, so the match needs only the leading letter
         ELSE IF s_str # <<>> /\ s_str[1] \in LetterSet THEN s_str[1]
         ELSE option_search(s_str)

OptionCol(letter) == "Option " \o letter

\* first pass of find_correct_letter: first option, in letter order, whose
\* normalized text equals the normalized correct answer
ExactMatches(row) ==
    {k \in 1..4 : /\ row[OptionCol(LETTERS[k])] # NaN
                  /\ normalize_text(row[OptionCol(LETTERS[k])])
                        = normalize_text(row["Correct Answer"])}

\* second pass: similarity score of one option as a fraction <<num, den>>,
\* <<0, 1>> when neither text contains the other
MatchScore(row, letter) ==
    LET c == normalize_text(row["Correct Answer"])
        o == normalize_text(row[OptionCol(letter)])
    IN IF row[OptionCol(letter)] = NaN THEN <<0, 1>>
       ELSE IF contains(c, o) /\ Len(o) > 0 THEN <<Len(c), Len(o)>>
       ELSE IF ~contains(c, o) /\ contains(o, c) /\ Len(c) > 0 THEN <<Len(o), Len(c)>>
       ELSE <<0, 1>>

FracGreater(a, b) == a[1] * b[2] > b[1] * a[2]

\* the loop over A..D keeps the first option with the strictly greatest score
RECURSIVE BestMatch(_, _, _, _)
BestMatch(row, k, best, best_score) ==
    IF k > 4 THEN <<best, best_score>>
    ELSE LET sc == MatchScore(row, LETTERS[k]) IN
         IF FracGreater(sc, best_score)
         THEN BestMatch(row, k + 1, LETTERS[k], sc)
         ELSE BestMatch(row, k + 1, best, best_score)

\* acceptance threshold of the substring match: score > 0.9
ThresholdNum == 9
ThresholdDen == 10

find_correct_letter(row) ==
    LET corr_let == extract_letter(row["Correct Answer"]) IN
    IF corr_let # NoLetter THEN corr_let
    ELSE IF ExactMatches(row) # {}
         THEN LETTERS[CHOOSE k \in ExactMatches(row) : \A j \in ExactMatches(row) : k <= j]
         ELSE LET bm == BestMatch(row, 1, NoLetter, <<0, 1>>) IN
              IF bm[1] # NoLetter /\ FracGreater(bm[2], <<ThresholdNum, ThresholdDen>>)
              THEN bm[1]
              ELSE NoLetter

is_correct(selected, correct_raw) ==
    IF selected = None \/ selected = <<>> THEN FALSE
    ELSE LET selected_letter == upper(strip(split_head(selected)))
             correct_letter  == extract_letter(correct_raw)
         IN IF correct_letter # NoLetter
            THEN selected_letter = <<correct_letter>>
            ELSE IF ColonPos(selected) # 0
                 THEN normalize_text(strip(split_tail(selected))) = normalize_text(correct_raw)
                 ELSE FALSE

\* f"{letter}: {text}"
DisplayOption(letter, text) == <<letter, ":", " ">> \o text

\* display_options of a row: one entry per option whose cell is not empty
display_options(row) ==
    {DisplayOption(l, row[OptionCol(l)]) : l \in {m \in LetterSet : row[OptionCol(m)] # NaN}}

\* s.startswith(p)
startswith(s, p) == Len(p) <= Len(s) /\ SubSeq(s, 1, Len(p)) = p

\* position of the first "|" in s, 0 when there is none
PipePos(s) == IF \E k \in 1..Len(s) : s[k] = "|"
              THEN CHOOSE k \in 1..Len(s) : s[k] = "|" /\ \A j \in 1..(k - 1) : s[j] # "|"
              ELSE 0

\* s.split("|")
RECURSIVE split_pipe(_)
split_pipe(s) ==
    IF PipePos(s) = 0 THEN <<s>>
    ELSE <<SubSeq(s, 1, PipePos(s) - 1)>> \o split_pipe(SubSeq(s, PipePos(s) + 1, Len(s)))

\* part.split(":", 1)[1].strip()
explanation(part) == strip(split_tail(part))

\* parse_rationale: the first part that starts, in any case, with
\* "OPTION <letter>:" or "<letter>:"; the second loop of the function returns
\* nothing
RECURSIVE parse_parts(_, _)
parse_parts(parts, selected_letter) ==
    IF parts = <<>> THEN None
    ELSE LET part == strip(Head(parts)) IN
         IF \/ startswith(upper(part), OPTION \o <<" ", selected_letter, ":">>)
            \/ startswith(upper(part), <<selected_letter, ":">>)
         THEN explanation(part)
         ELSE parse_parts(Tail(parts), selected_letter)

parse_rationale(rationale_text, selected_letter) ==
    IF rationale_text = NaN THEN None
    ELSE parse_parts(split_pipe(str(rationale_text)), selected_letter)

\* the loop of the feedback area over the parts of the rationale cell:
\* "OPTION <letter>:" in any case, "<letter>:" as written, or a part that
\* starts with the text of the selected option and holds a colon
RECURSIVE found_in_parts(_, _, _)
found_in_parts(parts, selected_letter, option_text) ==
    IF parts = <<>> THEN None
    ELSE LET part == strip(Head(parts)) IN
         IF startswith(upper(part), OPTION \o <<" ", selected_letter, ":">>)
         THEN explanation(part)
         ELSE IF startswith(part, <<selected_letter, ":">>)
         THEN explanation(part)
         ELSE IF startswith(part, option_text) /\ ColonPos(part) # 0
         THEN explanation(part)
         ELSE found_in_parts(Tail(parts), selected_letter, option_text)

\* found_rationale for the saved answer of a row; None when the cell is
\* empty or no part is chosen
found_rationale(rationale_text, row, saved_ans) ==
    LET selected_letter == upper(strip(split_head(saved_ans)))[1] IN
    IF rationale_text = NaN THEN None
    ELSE found_in_parts(split_pipe(str(rationale_text)), selected_letter,
                        row[OptionCol(selected_letter)])

----------------------------------------------------------------------------
(* Bounds of the model *)

\* seconds by which one step of the wall clock advances time.time()
ClockStep == 5
\* last instant of the wall clock that is explored
MaxClock == 15
\* number of entries of the timer select box, from its top, that are chosen
MaxTimerOption == 2
\* length of the longest one-word text among the graded rows
MaxWord == 11

----------------------------------------------------------------------------
(* Session state (st.session_state) *)

VARIABLES
    quiz_started,         \* st.session_state.quiz_started
    questions,            \* st.session_state.questions: sequence of rows, NoQuestions for None
    index,                \* st.session_state.index (0-based)
    answers,              \* st.session_state.answers: dict index -> selection
    time_spent,           \* st.session_state.time_spent: dict index -> seconds
    submitted_q,          \* st.session_state.submitted_q: dict index -> bool
    timer_per_question,   \* st.session_state.timer_per_question, NoneNum for None
    question_start_time,  \* st.session_state.question_start_time, NoneNum for None
    shuffle,              \* st.session_state.shuffle
    timer_choice,         \* st.session_state.timer_choice
    finished,             \* st.session_state.finished
    score,                \* st.session_state.score
    radio,                \* st.session_state[f"radio_{index}"]: value of the radio of the shown question
    now,                  \* time.time(), in whole seconds
    open_time,            \* history: seconds each question has been the shown question
    event,                \* history: the script run that produced the state
    g_row,                \* grading: the row whose answer is graded
    g_selected,           \* grading: the selection passed to is_correct
    g_letter,             \* grading: result of find_correct_letter(g_row)
    g_verdict,            \* grading: result of is_correct(g_selected, ...)
    g_pc,                 \* grading: "idle", "loaded", "resolved" or "judged"
    t_text,               \* helpers: the cell given to extract_letter and normalize_text
    t_letter,             \* helpers: result of extract_letter(t_text)
    t_norm,               \* helpers: result of normalize_text(t_text)
    t_renorm,             \* helpers: result of normalize_text(t_norm)
    t_pc,                 \* helpers: "idle", "given", "extracted", "normalized" or "renormalized"
    r_text,               \* feedback: the "Rationale (Wrong Answers)" cell of the graded row
    r_found,              \* feedback: found_rationale of the feedback area
    r_pc,                 \* feedback: "idle", "wrong" or "shown"
    flashcards,           \* flashcard_app: st.session_state.flashcards
    original_flashcards,  \* flashcard_app: st.session_state.original_flashcards
    current_index,        \* flashcard_app: st.session_state.current_index
    show_answer,          \* flashcard_app: st.session_state.show_answer
    file_loaded,          \* flashcard_app: st.session_state.file_loaded
    aliased               \* flashcard_app: flashcards and original_flashcards are one list object

session == <<quiz_started, questions, index, answers, time_spent, submitted_q,
             timer_per_question, question_start_time, shuffle, timer_choice,
             finished, score, radio, now, open_time, event>>

grading == <<g_row, g_selected, g_letter, g_verdict, g_pc>>

texts == <<t_text, t_letter, t_norm, t_renorm, t_pc>>

rationale == <<r_text, r_found, r_pc>>

cards == <<flashcards, original_flashcards, current_index, show_answer, file_loaded,
           aliased>>

vars == <<session, grading, texts, rationale, cards>>

\* None where a number is expected
NoneNum == -1
\* st.session_state.questions = None; a loaded frame is never empty
NoQuestions == <<>>
\* the "No timer" entry of the timer select box
NoTimerChoice == 0

TIMER_OPTIONS == <<NoTimerChoice, 10, 15, 20, 30, 45, 60>>
DefaultTimerChoice == 30

\* dict.get(k, default) and d[k] = v
get(d, k, default) == IF k \in DOMAIN d THEN d[k] ELSE default
put(d, k, v) == [x \in (DOMAIN d) \cup {k} |-> IF x = k THEN v ELSE d[x]]
EmptyDict == <<>>

Min(a, b) == IF a <= b THEN a ELSE b
Max(a, b) == IF a >= b THEN a ELSE b

\* questions.iloc[idx]
iloc(qs, idx) == qs[idx + 1]

Columns == {"Option A", "Option B", "Option C", "Option D", "Correct Answer"}

Row(a, b, c, d, correct) ==
    [col \in Columns |->
        CASE col = "Option A" -> a
          [] col = "Option B" -> b
          [] col = "Option C" -> c
          [] col = "Option D" -> d
          [] col = "Correct Answer" -> correct]

Paris == <<"P", "a", "r", "i", "s">>
Rome == <<"R", "o", "m", "e">>

\* rows of the loaded spreadsheets: the correct answer given as a letter,
\* and given as the text of an option
RowLetter == Row(Paris, Rome, NaN, NaN, <<"B">>)
RowText == Row(Paris, Rome, NaN, NaN, Rome)

\* results of read_quiz_df on the uploaded files: the empty frame (missing
\* columns, no rows, unreadable file), a one-question and a two-question quiz
DataFrames == { <<>>, <<RowText>>, <<RowLetter, RowText>> }

\* a sample that may repeat a row and omit another
Shuffles_with_repeats(qs) ==
    {[k \in 1..Len(qs) |-> qs[p[k]]] : p \in [1..Len(qs) -> 1..Len(qs)]}

\* the orders questions_df.sample(frac=1) can produce
Shuffles(qs) ==
    {[k \in 1..Len(qs) |-> qs[p[k]]] :
        p \in Permutations(1..Len(qs))}

\* update_score counting every answered question, correct or not
update_score_counts_answered(qs, ans_dict) ==
    Cardinality({idx \in 0..(Len(qs) - 1) :
        LET ans == get(ans_dict, idx, None) IN
        /\ ans # None
        /\ ans # <<>>})

update_score(qs, ans_dict) ==
    Cardinality({idx \in 0..(Len(qs) - 1) :
        LET ans == get(ans_dict, idx, None) IN
        /\ ans # None
        /\ ans # <<>>
        /\ is_correct(ans, iloc(qs, idx)["Correct Answer"])})

\* save_time_state without the cap at the timer
save_time_state_uncapped(ts, i, start, timer, t) ==
    IF start # NoneNum
    THEN put(ts, i, get(ts, i, 0) + (t - start))
    ELSE ts

\* save_time_state storing the last interval only, not the running total
save_time_state_last_interval(ts, i, start, timer, t) ==
    IF start # NoneNum
    THEN LET elapsed == t - start
         IN IF timer = NoneNum
            THEN put(ts, i, elapsed)
            ELSE put(ts, i, Min(timer, elapsed))
    ELSE ts

\* time_spent after save_time_state() at time t
save_time_state(ts, i, start, timer, t) ==
    IF start # NoneNum
    THEN LET elapsed == t - start
             current_total == get(ts, i, 0)
         IN IF timer = NoneNum
            THEN put(ts, i, current_total + elapsed)
            ELSE put(ts, i, Min(timer, current_total + elapsed))
    ELSE ts

\* a radio that is created without the saved answer
radio_default_unselected(qs, ans_dict, i) == None

\* value the radio of question i takes when the widget is created:
\* the saved answer when it is one of the displayed options
radio_default(qs, ans_dict, i) ==
    IF get(ans_dict, i, None) \in display_options(iloc(qs, i))
    THEN get(ans_dict, i, None)
    ELSE None

SessionInit ==
    /\ quiz_started = FALSE
    /\ questions = NoQuestions
    /\ index = 0
    /\ answers = EmptyDict
    /\ time_spent = EmptyDict
    /\ submitted_q = EmptyDict
    /\ timer_per_question = NoneNum
    /\ question_start_time = NoneNum
    /\ shuffle = TRUE
    /\ timer_choice = DefaultTimerChoice
    /\ finished = FALSE
    /\ score = 0
    /\ radio = None
    /\ now = 0
    /\ open_time = EmptyDict
    /\ event = "init"

GradingIdle ==
    /\ g_row = RowLetter
    /\ g_selected = None
    /\ g_letter = NoLetter
    /\ g_verdict = FALSE
    /\ g_pc = "idle"

\* no cell is being examined
TextIdle ==
    /\ t_text = NaN
    /\ t_letter = NoLetter
    /\ t_norm = <<>>
    /\ t_renorm = <<>>
    /\ t_pc = "idle"

\* no feedback is being rendered
RationaleIdle ==
    /\ r_text = NaN
    /\ r_found = None
    /\ r_pc = "idle"

\* the flashcard viewer before a deck is loaded
CardsIdle ==
    /\ flashcards = <<>>
    /\ original_flashcards = <<>>
    /\ current_index = 0
    /\ show_answer = FALSE
    /\ file_loaded = FALSE
    /\ aliased = FALSE

Init == SessionInit /\ GradingIdle /\ TextIdle /\ RationaleIdle /\ CardsIdle

----------------------------------------------------------------------------
(* Pages: which part of the script a run executes *)

OnUpload == questions = NoQuestions
OnSetup == questions # NoQuestions /\ ~quiz_started
OnResults == questions # NoQuestions /\ quiz_started /\ finished
\* the quiz page shown whether or not the quiz is finished
OnQuiz_ignoring_finished == questions # NoQuestions /\ quiz_started
OnQuiz == questions # NoQuestions /\ quiz_started /\ ~finished

total_q == Len(questions)
is_submitted == get(submitted_q, index, FALSE)
time_allowed == timer_per_question

\* question_start_time after the sidebar's "Initialize Time if needed"
start_time == IF question_start_time = NoneNum THEN now ELSE question_start_time

\* remaining seconds shown by the timer at time t (timer mode)
remaining_at(t) ==
    LET shown == IF is_submitted
                 THEN get(time_spent, index, 0)
                 ELSE Min(time_allowed, get(time_spent, index, 0) + (t - start_time))
    IN Max(0, time_allowed - shown)

remaining == remaining_at(now)

----------------------------------------------------------------------------
(* State 1: file upload *)

UploadFile(df) ==
    /\ OnUpload
    /\ IF df # <<>>
       THEN /\ questions' = df
            /\ quiz_started' = FALSE
            /\ event' = "load"
       ELSE /\ UNCHANGED <<questions, quiz_started>>
            /\ event' = "load_failed"
    /\ UNCHANGED <<index, answers, time_spent, submitted_q, timer_per_question,
                   question_start_time, shuffle, timer_choice, finished, score,
                   radio, now, open_time>>
    /\ UNCHANGED <<grading, texts, rationale, cards>>

----------------------------------------------------------------------------
(* State 2: setup *)

\* Every run of the setup page first stores the values of the shuffle check
\* box (sh) and of the timer select box (tc), then handles the clicked button.

\* the start button without the reset of submitted_q
StartQuiz_keeps_submitted(sh, tc, order) ==
    /\ OnSetup
    /\ shuffle' = sh
    /\ timer_choice' = tc
    /\ order \in (IF sh THEN Shuffles(questions) ELSE {questions})
    /\ questions' = order
    /\ index' = 0
    /\ answers' = EmptyDict
    /\ time_spent' = EmptyDict
    /\ timer_per_question' = (IF tc = NoTimerChoice THEN NoneNum ELSE tc)
    /\ question_start_time' = now
    /\ quiz_started' = TRUE
    /\ finished' = FALSE
    /\ score' = 0
    /\ radio' = radio_default(order, EmptyDict, 0)
    /\ open_time' = EmptyDict
    /\ event' = "start"
    /\ UNCHANGED <<grading, texts, rationale, cards>>
    /\ UNCHANGED <<now, submitted_q>>

StartQuiz(sh, tc, order) ==
    /\ OnSetup
    /\ shuffle' = sh
    /\ timer_choice' = tc
    /\ order \in (IF sh THEN Shuffles(questions) ELSE {questions})
    /\ questions' = order
    /\ index' = 0
    /\ answers' = EmptyDict
    /\ time_spent' = EmptyDict
    /\ submitted_q' = EmptyDict
    /\ timer_per_question' = (IF tc = NoTimerChoice THEN NoneNum ELSE tc)
    /\ question_start_time' = now
    /\ quiz_started' = TRUE
    /\ finished' = FALSE
    /\ score' = 0
    /\ radio' = radio_default(order, EmptyDict, 0)
    /\ open_time' = EmptyDict
    /\ event' = "start"
    /\ UNCHANGED <<grading, texts, rationale, cards>>
    /\ UNCHANGED now

ResetFile(sh, tc) ==
    /\ OnSetup
    /\ shuffle' = sh
    /\ timer_choice' = tc
    /\ questions' = NoQuestions
    /\ event' = "reset_file"
    /\ UNCHANGED <<grading, texts, rationale, cards>>
    /\ UNCHANGED <<quiz_started, index, answers, time_spent, submitted_q,
                   timer_per_question, question_start_time,
                   finished, score, radio, now, open_time>>

----------------------------------------------------------------------------
(* State 3: results *)

\* Retry Same Questions without the reset of finished
RetrySame_keeps_finished ==
    /\ OnResults
    /\ quiz_started' = FALSE
    /\ UNCHANGED finished
    /\ event' = "retry"
    /\ UNCHANGED <<grading, texts, rationale, cards>>
    /\ UNCHANGED <<questions, index, answers, time_spent, submitted_q,
                   timer_per_question, question_start_time, shuffle, timer_choice,
                   score, radio, now, open_time>>

RetrySame ==
    /\ OnResults
    /\ quiz_started' = FALSE
    /\ finished' = FALSE
    /\ event' = "retry"
    /\ UNCHANGED <<grading, texts, rationale, cards>>
    /\ UNCHANGED <<questions, index, answers, time_spent, submitted_q,
                   timer_per_question, question_start_time, shuffle, timer_choice,
                   score, radio, now, open_time>>

\* every key is deleted and the next run re-creates the defaults
UploadNewFile ==
    /\ OnResults
    /\ quiz_started' = FALSE
    /\ questions' = NoQuestions
    /\ index' = 0
    /\ answers' = EmptyDict
    /\ time_spent' = EmptyDict
    /\ submitted_q' = EmptyDict
    /\ timer_per_question' = NoneNum
    /\ question_start_time' = NoneNum
    /\ shuffle' = TRUE
    /\ timer_choice' = DefaultTimerChoice
    /\ finished' = FALSE
    /\ score' = 0
    /\ radio' = None
    /\ open_time' = EmptyDict
    /\ event' = "full_reset"
    /\ UNCHANGED <<grading, texts, rationale, cards>>
    /\ UNCHANGED now

----------------------------------------------------------------------------
(* State 4: active quiz *)

\* the user picks an option of the shown question; the radio is disabled
\* once the question is submitted
SelectDraft(opt) ==
    /\ OnQuiz
    /\ ~is_submitted
    /\ opt \in display_options(iloc(questions, index))
    /\ opt # radio
    /\ radio' = opt
    /\ question_start_time' = start_time
    /\ event' = "select"
    /\ UNCHANGED <<grading, texts, rationale, cards>>
    /\ UNCHANGED <<quiz_started, questions, index, answers, time_spent, submitted_q,
                   timer_per_question, shuffle, timer_choice, finished, score,
                   now, open_time>>

\* handle_navigation saving the draft under the index navigated to
handle_navigation_wrong_index(new_index) ==
    /\ time_spent' = save_time_state(time_spent, index, start_time, timer_per_question, now)
    /\ answers' = (IF ~is_submitted THEN put(answers, new_index, radio) ELSE answers)
    /\ index' = new_index
    /\ question_start_time' = now
    /\ radio' = radio_default(questions, answers', new_index)
    /\ event' = "navigate"
    /\ UNCHANGED <<grading, texts, rationale, cards>>
    /\ UNCHANGED <<quiz_started, questions, submitted_q, timer_per_question,
                   shuffle, timer_choice, finished, score, now, open_time>>

\* handle_navigation saving the time after the index has changed
handle_navigation_flushes_new_index(new_index) ==
    /\ time_spent' = save_time_state(time_spent, new_index, start_time, timer_per_question, now)
    /\ answers' = (IF ~is_submitted THEN put(answers, index, radio) ELSE answers)
    /\ index' = new_index
    /\ question_start_time' = now
    \* the rerun shows question new_index: its radio is created afresh; no
    \* question new_index, no saved answer to create it from
    /\ radio' = (IF new_index \in 0..(total_q - 1)
                 THEN radio_default(questions, answers', new_index)
                 ELSE None)
    /\ event' = "navigate"
    /\ UNCHANGED <<grading, texts, rationale, cards>>
    /\ UNCHANGED <<quiz_started, questions, submitted_q, timer_per_question,
                   shuffle, timer_choice, finished, score, now, open_time>>

handle_navigation(new_index) ==
    /\ time_spent' = save_time_state(time_spent, index, start_time, timer_per_question, now)
    /\ answers' = (IF ~is_submitted THEN put(answers, index, radio) ELSE answers)
    /\ index' = new_index
    /\ question_start_time' = now
    \* the rerun shows question new_index: its radio is created afresh; no
    \* question new_index, no saved answer to create it from
    /\ radio' = (IF new_index \in 0..(total_q - 1)
                 THEN radio_default(questions, answers', new_index)
                 ELSE None)
    /\ event' = "navigate"
    /\ UNCHANGED <<grading, texts, rationale, cards>>
    /\ UNCHANGED <<quiz_started, questions, submitted_q, timer_per_question,
                   shuffle, timer_choice, finished, score, now, open_time>>

\* a button of the question map
MapButton(q_idx) ==
    /\ OnQuiz
    /\ q_idx \in 0..(total_q - 1)
    /\ handle_navigation(q_idx)

Previous ==
    /\ OnQuiz
    /\ ~(index = 0)
    /\ handle_navigation(index - 1)

\* the Next button never disabled; past the last question there is no
\* radio to create
NextQuestion_never_disabled ==
    /\ OnQuiz
    /\ time_spent' = save_time_state(time_spent, index, start_time, timer_per_question, now)
    /\ answers' = (IF ~is_submitted THEN put(answers, index, radio) ELSE answers)
    /\ index' = index + 1
    /\ question_start_time' = now
    /\ radio' = (IF index + 1 < total_q
                 THEN radio_default(questions, answers', index + 1)
                 ELSE None)
    /\ event' = "navigate"
    /\ UNCHANGED <<grading, texts, rationale, cards>>
    /\ UNCHANGED <<quiz_started, questions, submitted_q, timer_per_question,
                   shuffle, timer_choice, finished, score, now, open_time>>

NextQuestion ==
    /\ OnQuiz
    /\ ~(index = total_q - 1)
    /\ handle_navigation(index + 1)

\* Finish Quiz without the auto-submission of the shown question
FinishQuiz_no_submit ==
    /\ OnQuiz
    /\ time_spent' = save_time_state(time_spent, index, start_time, timer_per_question, now)
    /\ UNCHANGED <<answers, submitted_q>>
    /\ score' = update_score(questions, answers')
    /\ finished' = TRUE
    /\ question_start_time' = start_time
    /\ radio' = None
    /\ event' = "finish"
    /\ UNCHANGED <<grading, texts, rationale, cards>>
    /\ UNCHANGED <<quiz_started, questions, index, timer_per_question, shuffle,
                   timer_choice, now, open_time>>

FinishQuiz ==
    /\ OnQuiz
    /\ time_spent' = save_time_state(time_spent, index, start_time, timer_per_question, now)
    /\ IF ~is_submitted
       THEN /\ answers' = put(answers, index, radio)
            /\ submitted_q' = put(submitted_q, index, TRUE)
       ELSE UNCHANGED <<answers, submitted_q>>
    /\ score' = update_score(questions, answers')
    /\ finished' = TRUE
    /\ question_start_time' = start_time
    \* the results page shows no radio
    /\ radio' = None
    /\ event' = "finish"
    /\ UNCHANGED <<grading, texts, rationale, cards>>
    /\ UNCHANGED <<quiz_started, questions, index, timer_per_question, shuffle,
                   timer_choice, now, open_time>>

SubmitAnswer ==
    /\ OnQuiz
    /\ ~is_submitted
    /\ time_spent' = save_time_state(time_spent, index, start_time, timer_per_question, now)
    /\ answers' = put(answers, index, radio)
    /\ submitted_q' = put(submitted_q, index, TRUE)
    /\ score' = update_score(questions, answers')
    /\ question_start_time' = start_time
    /\ event' = "submit"
    /\ UNCHANGED <<grading, texts, rationale, cards>>
    /\ UNCHANGED <<quiz_started, questions, index, timer_per_question, shuffle,
                   timer_choice, finished, radio, now, open_time>>

\* the timeout locking the question without storing the selected option
AutoAction_keeps_saved ==
    /\ OnQuiz
    /\ time_allowed # NoneNum
    /\ remaining <= 0 /\ ~is_submitted
    /\ time_spent' = put(time_spent, index, time_allowed)
    /\ submitted_q' = put(submitted_q, index, TRUE)
    /\ UNCHANGED answers
    /\ score' = update_score(questions, answers')
    /\ question_start_time' = start_time
    /\ event' = "timeout"
    /\ UNCHANGED <<grading, texts, rationale, cards>>
    /\ UNCHANGED <<quiz_started, questions, index, timer_per_question, shuffle,
                   timer_choice, finished, radio, now, open_time>>

\* the timeout run without the test of the remaining time
AutoAction_any_time ==
    /\ OnQuiz
    /\ time_allowed # NoneNum
    /\ ~is_submitted
    /\ time_spent' = put(time_spent, index, time_allowed)
    /\ submitted_q' = put(submitted_q, index, TRUE)
    /\ answers' = put(answers, index, radio)
    /\ score' = update_score(questions, answers')
    /\ question_start_time' = start_time
    /\ event' = "timeout"
    /\ UNCHANGED <<grading, texts, rationale, cards>>
    /\ UNCHANGED <<quiz_started, questions, index, timer_per_question, shuffle,
                   timer_choice, finished, radio, now, open_time>>

\* a run without a click, timer mode, time is up: the question is locked
AutoAction ==
    /\ OnQuiz
    /\ time_allowed # NoneNum
    /\ remaining <= 0 /\ ~is_submitted
    /\ time_spent' = put(time_spent, index, time_allowed)
    /\ submitted_q' = put(submitted_q, index, TRUE)
    /\ answers' = put(answers, index, radio)
    /\ score' = update_score(questions, answers')
    /\ question_start_time' = start_time
    /\ event' = "timeout"
    /\ UNCHANGED <<grading, texts, rationale, cards>>
    /\ UNCHANGED <<quiz_started, questions, index, timer_per_question, shuffle,
                   timer_choice, finished, radio, now, open_time>>

\* a run without a click, timer mode, time is left: sleep and rerun
Heartbeat ==
    /\ OnQuiz
    /\ time_allowed # NoneNum
    /\ ~(remaining <= 0 /\ ~is_submitted)
    /\ ~is_submitted
    /\ question_start_time' = start_time
    /\ event' = "heartbeat"
    /\ UNCHANGED <<grading, texts, rationale, cards>>
    /\ UNCHANGED <<quiz_started, questions, index, answers, time_spent, submitted_q,
                   timer_per_question, shuffle, timer_choice, finished, score,
                   radio, now, open_time>>

----------------------------------------------------------------------------
(* The wall clock *)

AdvanceClock ==
    /\ now + ClockStep <= MaxClock
    /\ now' = now + ClockStep
    /\ open_time' = (IF OnQuiz
                     THEN put(open_time, index, get(open_time, index, 0) + ClockStep)
                     ELSE open_time)
    /\ event' = "clock"
    /\ UNCHANGED <<grading, texts, rationale, cards>>
    /\ UNCHANGED <<quiz_started, questions, index, answers, time_spent, submitted_q,
                   timer_per_question, question_start_time, shuffle, timer_choice,
                   finished, score, radio>>

\* options offered by the radio of the shown question
ShownOptions == IF OnQuiz THEN display_options(iloc(questions, index)) ELSE {}

\* entries of the timer select box that the user chooses
TimerChoices == {TIMER_OPTIONS[k] : k \in 1..Min(MaxTimerOption, Len(TIMER_OPTIONS))}

Next ==
    \/ \E df \in DataFrames : UploadFile(df)
    \/ \E sh \in BOOLEAN, tc \in TimerChoices, order \in Shuffles(questions) :
          StartQuiz(sh, tc, order)
    \/ \E sh \in BOOLEAN, tc \in TimerChoices : ResetFile(sh, tc)
    \/ RetrySame
    \/ UploadNewFile
    \/ \E opt \in ShownOptions : SelectDraft(opt)
    \/ Previous
    \/ NextQuestion
    \/ \E q_idx \in 0..(total_q - 1) : MapButton(q_idx)
    \/ FinishQuiz
    \/ SubmitAnswer
    \/ AutoAction
    \/ Heartbeat
    \/ AdvanceClock

Spec == Init /\ [][Next]_vars

----------------------------------------------------------------------------
(* Grading of one row: the feedback area of a submitted question calls     *)
(* find_correct_letter on the row and is_correct on the stored selection.  *)

\* the word xx...x of n letters
X(n) == [k \in 1..n |-> "x"]

Berlin == <<"B", "e", "r", "l", "i", "n">>

\* option texts of the graded rows
OptionTexts == { Rome, <<"r", "o", "m", "e", ".">>, Paris, X(MaxWord) }

\* "Correct Answer" cells of the graded rows: letters, letter phrases,
\* option texts, near misses of option texts, an empty cell
CorrectAnswers ==
    { <<"B">>, <<" ", "a", " ">>, <<"b", ")">>, <<"D">>,
      <<"O", "p", "t", "i", "o", "n", " ", "B">>,
      Rome, <<"r", "o", "m", "e", " ", ".">>, <<" ", "R", "O", "M", "E">>,
      Paris, Berlin, NaN }
    \cup { X(n) : n \in {1, MaxWord - 2, MaxWord - 1, MaxWord} }

GradeRows ==
    { Row(a, b, c, NaN, k) : a \in OptionTexts, b \in OptionTexts,
                             c \in {NaN, Berlin}, k \in CorrectAnswers }

GradeInit ==
    /\ SessionInit
    /\ g_row \in GradeRows
    /\ g_selected = None
    /\ g_letter = NoLetter
    /\ g_verdict = FALSE
    /\ g_pc = "loaded"
    /\ TextIdle
    /\ RationaleIdle
    /\ CardsIdle

\* corr_let = find_correct_letter(current_row)
Resolve ==
    /\ g_pc = "loaded"
    /\ g_letter' = find_correct_letter(g_row)
    /\ g_pc' = "resolved"
    /\ UNCHANGED <<g_row, g_selected, g_verdict>>
    /\ UNCHANGED <<session, texts, rationale, cards>>

\* is_correct(saved_ans, current_row["Correct Answer"]); saved_ans is one of
\* the displayed options, or None for a question locked without an answer
Judge(sel) ==
    /\ g_pc = "resolved"
    /\ sel \in display_options(g_row) \cup {None}
    /\ g_selected' = sel
    /\ g_verdict' = is_correct(sel, g_row["Correct Answer"])
    /\ g_pc' = "judged"
    /\ UNCHANGED <<g_row, g_letter>>
    /\ UNCHANGED <<session, texts, rationale, cards>>

GradeNext ==
    \/ Resolve
    \/ \E sel \in display_options(g_row) \cup {None} : Judge(sel)

SpecGrade == GradeInit /\ [][GradeNext]_vars

----------------------------------------------------------------------------
(* The text helpers on one cell: extract_letter and normalize_text are     *)
(* applied to the "Correct Answer" cell and to the option cells of a row.  *)

\* longest run of spaces around and inside a cell
MaxPad == 2

Spaces(n) == [k \in 1..n |-> " "]

Apple == <<"A", "p", "p", "l", "e">>
OptionWord == <<"O", "p", "t", "i", "o", "n">>

\* the cores of the cells: letters, words that start with a letter A-D,
\* OPTION phrases and their near misses, plain answer texts
Cores ==
    { <<"A">>, <<"a">>, <<"d">>, Apple, Berlin, Rome, Paris,
      OptionWord \o <<"a", "l">>, OptionWord \o <<"B">>, OptionWord,
      <<"m", "y", " ">> \o OptionWord \o <<" ", "c">> }
    \cup { OptionWord \o Spaces(n) \o w : n \in 1..MaxPad,
                                         w \in {<<"A">>, <<"B", "l", "u", "e">>} }

\* what follows the core: nothing, a delimiter, punctuation, more text
Tails ==
    { <<>>, <<".">>, <<":">>, <<")">>, <<"-">>, <<";", ",">>, <<":", " ", "x">> }
    \cup { Spaces(n) \o <<".">> : n \in 1..MaxPad }

QuoteChars == {"\"", "'"}

Plain == { Spaces(n) \o c \o t : n \in {0, MaxPad}, c \in Cores, t \in Tails }

Quoted == { <<q>> \o c \o <<q>> : q \in QuoteChars, c \in Cores }

Texts == Plain \cup Quoted \cup {NaN}

TextInit ==
    /\ SessionInit
    /\ GradingIdle
    /\ t_text \in Texts
    /\ t_letter = NoLetter
    /\ t_norm = <<>>
    /\ t_renorm = <<>>
    /\ t_pc = "given"
    /\ RationaleIdle
    /\ CardsIdle

\* corr_let = extract_letter(row["Correct Answer"])
Extract ==
    /\ t_pc = "given"
    /\ t_letter' = extract_letter(t_text)
    /\ t_pc' = "extracted"
    /\ UNCHANGED <<t_text, t_norm, t_renorm>>
    /\ UNCHANGED <<session, grading, rationale, cards>>

\* corr_norm = normalize_text(row["Correct Answer"])
Normalize ==
    /\ t_pc = "given"
    /\ t_norm' = normalize_text(t_text)
    /\ t_pc' = "normalized"
    /\ UNCHANGED <<t_text, t_letter, t_renorm>>
    /\ UNCHANGED <<session, grading, rationale, cards>>

\* normalize_text applied to a text that normalize_text returned
Renormalize ==
    /\ t_pc = "normalized"
    /\ t_renorm' = normalize_text(t_norm)
    /\ t_pc' = "renormalized"
    /\ UNCHANGED <<t_text, t_letter, t_norm>>
    /\ UNCHANGED <<session, grading, rationale, cards>>

TextNext == Extract \/ Normalize \/ Renormalize

SpecText == TextInit /\ [][TextNext]_vars

----------------------------------------------------------------------------
(* Properties of the quiz session *)

Indices == 0..(total_q - 1)

\* indices whose answer is locked
Submitted == {i \in DOMAIN submitted_q : submitted_q[i]}

\* submitted indices whose stored answer is graded correct
CorrectSubmitted ==
    {idx \in Submitted \cap Indices :
        is_correct(get(answers, idx, None), iloc(questions, idx)["Correct Answer"])}

\* a step that neither starts a new session nor discards the session
SameSession == event' \notin {"start", "full_reset"}

\* C1: right after a submit, a timeout auto-submit or a finish, score is the
\* number of submitted indices whose stored answer is correct; a correct draft
\* that navigation saved but that was never submitted does not count.
C1_ScoreCountsSubmittedOnly ==
    (questions # NoQuestions /\ event \in {"submit", "timeout", "finish"})
        => score = Cardinality(CorrectSubmitted)

\* C2: submission is irreversible within a session: a submitted index stays
\* submitted and keeps its stored answer under every step that is not a start
\* or a full reset, and the radio of a shown submitted question cannot change.
C2_SubmissionIrreversible ==
    [][SameSession =>
          /\ \A i \in Submitted :
                /\ i \in Submitted'
                /\ get(answers', i, None) = get(answers, i, None)
          /\ (OnQuiz /\ OnQuiz' /\ index \in Submitted /\ index' = index)
                => radio' = radio]_vars

C2_Witness ==
    /\ OnQuiz
    /\ event = "navigate"
    /\ index \in Submitted
    /\ get(answers, index, None) # None
    /\ \E j \in Indices \ {index} : j \in Submitted

\* C3: the timeout step of a timed session locks the shown question, stores
\* as its answer exactly the option selected at that moment (None when nothing
\* is selected) and recomputes the score.
C3_TimeoutLocksDraft ==
    [][event' = "timeout" =>
          /\ timer_per_question # NoneNum
          /\ index \notin Submitted
          /\ index \in Submitted'
          /\ get(answers', index, None) = radio
          /\ score' = update_score(questions', answers')]_vars

C3_Witness ==
    /\ event = "timeout"
    /\ get(answers, index, None) # None
    /\ score > 0

\* C4: after the timeout auto-submission of question i the session advances by
\* itself: to question i+1 when i is not the last question, to Finished
\* otherwise.
C4_TimeoutAdvances ==
    [][event' = "timeout" =>
          IF index < total_q - 1
          THEN index' = index + 1 /\ ~finished'
          ELSE finished']_vars

\* C5: the draft of an unsubmitted question survives leaving it: navigation
\* away stores the selected option without submitting, no step on another
\* question changes that stored draft or submits the question, and navigating
\* back shows the stored draft again.
C5_DraftPreserved ==
    [][(SameSession /\ OnQuiz) =>
          /\ (index' # index /\ index \notin Submitted)
                => /\ get(answers', index, None) = radio
                   /\ index \notin Submitted'
          /\ \A i \in Indices \ {index} :
                i \notin Submitted
                    => /\ get(answers', i, None) = get(answers, i, None)
                       /\ i \notin Submitted'
                       /\ (index' = i => radio' = get(answers, i, None))]_vars

C5_Witness ==
    /\ OnQuiz
    /\ event = "navigate"
    /\ index \notin Submitted
    /\ radio # None
    /\ radio = get(answers, index, None)
    /\ \E j \in Indices \ {index} : j \in Submitted

\* C6: finish, taken from a state of the running quiz, adds the elapsed time
\* to the shown question, submits it with the selected option (None when
\* nothing is selected) when it is not submitted yet, recomputes the score and
\* sets finished; a question finished without an answer is not counted.
C6_FinishSubmitsCurrent ==
    [][event' = "finish" =>
          /\ OnQuiz
          /\ finished'
          /\ time_spent' = save_time_state(time_spent, index, start_time,
                                           timer_per_question, now)
          /\ index' = index
          /\ index \in Submitted'
          /\ (index \notin Submitted => get(answers', index, None) = radio)
          /\ (index \in Submitted => answers' = answers)
          /\ score' = update_score(questions', answers')
          /\ (get(answers', index, None) = None
                  => score' <= Cardinality(Indices \ {index}))]_vars

C6_Witness ==
    /\ event = "finish"
    /\ finished
    /\ index \in Submitted
    /\ get(answers, index, None) = None
    /\ total_q = 2
    /\ Submitted = Indices
    /\ score = 1

\* seconds stored for a question that has been open for x seconds
Capped(x) == IF timer_per_question = NoneNum THEN x ELSE Min(timer_per_question, x)

\* C7: after every time flush (submit, navigate, finish) the time stored for
\* the flushed question is the wall-clock time during which it was the shown
\* question, capped at the timer: no interval is counted twice.
C7_NoDoubleCounting ==
    [][event' \in {"submit", "navigate", "finish"} =>
          get(time_spent', index, 0) = Capped(get(open_time', index, 0))]_vars

\* C8: in a timed session every stored time lies in [0, timer_per_question]
\* and so does the remaining time shown for the current question.
C8_TimeWithinTimer ==
    timer_per_question # NoneNum =>
        /\ \A i \in DOMAIN time_spent :
              0 <= time_spent[i] /\ time_spent[i] <= timer_per_question
        /\ OnQuiz => (0 <= remaining /\ remaining <= timer_per_question)

C8_Witness ==
    /\ OnQuiz
    /\ timer_per_question # NoneNum
    /\ \E i \in DOMAIN time_spent :
          /\ time_spent[i] = timer_per_question
          /\ i \notin Submitted
          /\ get(open_time, i, 0) > timer_per_question

----------------------------------------------------------------------------
(* Properties of the grading helpers *)

\* C9: when find_correct_letter resolves the row to letter X, is_correct of
\* the selection "X: <text of option X>" is true.
C9_ResolvedOptionIsCorrect ==
    (/\ g_pc = "judged"
     /\ g_letter # NoLetter
     /\ g_row[OptionCol(g_letter)] # NaN
     /\ g_selected = DisplayOption(g_letter, g_row[OptionCol(g_letter)]))
        => g_verdict

\* C10: when find_correct_letter resolves the row to letter L, is_correct is
\* true only of a selection whose letter is L, also when two options have the
\* same normalized text.
C10_OnlyResolvedLetterCorrect ==
    (/\ g_pc = "judged"
     /\ g_letter # NoLetter
     /\ g_verdict)
        => upper(strip(split_head(g_selected))) = <<g_letter>>

\* C11: find_correct_letter never guesses: when the correct answer holds no
\* extractable letter and equals no option text after normalization, the row
\* resolves to no letter; a substring overlap with an option is not accepted.
C11_NeverGuesses ==
    (/\ g_pc \in {"resolved", "judged"}
     /\ extract_letter(g_row["Correct Answer"]) = NoLetter
     /\ ExactMatches(g_row) = {})
        => g_letter = NoLetter

\* the letter forms of a correct answer as the specification words them:
\* a bare letter, a letter followed by a delimiter, an OPTION-letter phrase
Delimiters == {".", ":", ")", "-"} \cup Whitespace

IsBareLetter(s) ==
    LET t == upper(strip(s)) IN Len(t) = 1 /\ t[1] \in LetterSet

IsDelimitedLetter(s) ==
    LET t == upper(strip(s)) IN
    Len(t) >= 2 /\ t[1] \in LetterSet /\ t[2] \in Delimiters

\* "OPTION", whitespace, a letter, then the end of the text or a delimiter
IsOptionPhraseAt(t, p) ==
    /\ p + 6 <= Len(t)
    /\ SubSeq(t, p, p + 5) = OPTION
    /\ IsSpace(t[p + 6])
    /\ LET after == lstrip(SubSeq(t, p + 6, Len(t)), Whitespace)
       IN /\ after # <<>>
          /\ Head(after) \in LetterSet
          /\ (Len(after) = 1 \/ after[2] \in Delimiters)

IsOptionPhrase(s) ==
    LET t == upper(strip(s)) IN \E p \in 1..Len(t) : IsOptionPhraseAt(t, p)

IsLetterForm(s) == IsBareLetter(s) \/ IsDelimitedLetter(s) \/ IsOptionPhrase(s)

\* C12: when the correct answer is not of a letter form and its normalized
\* text equals the normalized text of an option, find_correct_letter returns
\* the letter of such an option, also for a text that merely begins with one
\* of the letters A-D, such as "Berlin".
C12_TextResolvesToItsOption ==
    (/\ g_pc \in {"resolved", "judged"}
     /\ g_row["Correct Answer"] # NaN
     /\ ~IsLetterForm(g_row["Correct Answer"])
     /\ ExactMatches(g_row) # {})
        => g_letter \in {LETTERS[k] : k \in ExactMatches(g_row)}

\* C13: when the correct answer is a bare letter, in either case and with or
\* without surrounding whitespace, that names an option of the row,
\* find_correct_letter returns that letter whatever the option texts are.
C13_BareLetterResolves ==
    (/\ g_pc \in {"resolved", "judged"}
     /\ g_row["Correct Answer"] # NaN
     /\ IsBareLetter(g_row["Correct Answer"])
     /\ g_row[OptionCol(upper(strip(g_row["Correct Answer"]))[1])] # NaN)
        => g_letter = upper(strip(g_row["Correct Answer"]))[1]

\* a lower-case letter between spaces resolved to its option, no option text
\* of the row being equal to it
C13_Witness ==
    /\ g_pc = "resolved"
    /\ g_row["Correct Answer"] = <<" ", "a", " ">>
    /\ g_row["Option A"] = X(MaxWord)
    /\ ExactMatches(g_row) = {}
    /\ g_letter = "A"

----------------------------------------------------------------------------
(* Properties of the text helpers *)

\* the cell as extract_letter examines it
Examined(s) == upper(strip(str(s)))

StartsWithLetter(s) == Examined(s) # <<>> /\ Examined(s)[1] \in LetterSet

\* C14: extract_letter returns the leading letter A-D of a text only when the
\* letter is the whole text or is followed by one of . : ) - or whitespace;
\* for a word that merely starts with A-D, such as "Apple", it returns none.
C14_LeadingLetterNeedsDelimiter ==
    (/\ t_pc = "extracted"
     /\ StartsWithLetter(t_text)
     /\ ~IsLetterForm(t_text))
        => t_letter = NoLetter

\* C15: extract_letter recognizes the OPTION form only when "OPTION" is
\* followed by whitespace and then a letter A-D that ends the text or is
\* followed by a delimiter; a text that does not start with A-D and holds no
\* such phrase ("Optional", "OptionB", "Option Blue") yields none.
C15_OptionFormNeedsSeparateLetter ==
    (/\ t_pc = "extracted"
     /\ ~StartsWithLetter(t_text)
     /\ ~IsOptionPhrase(str(t_text)))
        => t_letter = NoLetter

\* C16: normalize_text is idempotent, also on texts with whitespace before
\* trailing punctuation such as "a .".
C16_NormalizeIdempotent ==
    t_pc = "renormalized" => t_renorm = t_norm

\* a text enclosed in matching double or single quotes, and the text inside
IsQuoted(s) == Len(s) >= 2 /\ s[1] \in QuoteChars /\ s[Len(s)] = s[1]
Unquoted(s) == SubSeq(s, 2, Len(s) - 1)

\* C17: normalize_text strips one layer of enclosing matching quotes: a text
\* wrapped in matching double or single quotes normalizes to the same string
\* as the text inside the quotes.
C17_QuotesStripped ==
    (/\ t_pc \in {"normalized", "renormalized"}
     /\ t_text # NaN
     /\ IsQuoted(strip(t_text)))
        => t_norm = normalize_text(Unquoted(strip(t_text)))

----------------------------------------------------------------------------
(* Properties of the phases of the session *)

\* C18: the start button of the setup page, whatever an earlier session left
\* in the state, yields a running quiz at question 0 with no answers, no
\* selection, no submitted question, no time spent, score 0 and the question
\* opened at the current time.
C18_StartYieldsFreshSession ==
    event = "start" =>
        /\ OnQuiz
        /\ index = 0
        /\ answers = EmptyDict
        /\ radio = None
        /\ submitted_q = EmptyDict
        /\ time_spent = EmptyDict
        /\ score = 0
        /\ question_start_time = now

\* a two-question quiz started when the clock has advanced
C18_Witness ==
    /\ event = "start"
    /\ OnQuiz
    /\ total_q = 2
    /\ now > 0
    /\ question_start_time = now
    /\ Submitted = {}

\* C19: the results page is terminal: no heartbeat, timeout, navigation,
\* submission or selection runs there, and the passing of time changes
\* neither answers, submitted_q, time_spent, index nor score; the only runs
\* are Retry Same Questions, which leads to the setup page with the same
\* questions in the same order, and Upload New File, which leads to the
\* upload page with the initial state.
C19_FinishedIsTerminal ==
    [][OnResults =>
          /\ event' \in {"clock", "retry", "full_reset"}
          /\ event' = "clock" =>
                /\ OnResults'
                /\ UNCHANGED <<questions, answers, submitted_q, time_spent, index, score>>
          /\ event' = "retry" => OnSetup' /\ questions' = questions
          /\ event' = "full_reset" =>
                /\ OnUpload'
                /\ answers' = EmptyDict /\ submitted_q' = EmptyDict
                /\ time_spent' = EmptyDict /\ index' = 0 /\ score' = 0]_vars

\* the results page of a timed quiz, with a question left unsubmitted, after
\* more time than the timer allows has passed since the quiz was finished
C19_Witness ==
    /\ OnResults
    /\ event = "clock"
    /\ timer_per_question # NoneNum
    /\ now - question_start_time >= timer_per_question
    /\ Submitted # Indices

\* C20: whenever the quiz page is shown, 0 <= index < number of questions.
C20_IndexInRange ==
    OnQuiz => (0 <= index /\ index < total_q)

\* the last question of a two-question quiz reached by navigation
C20_Witness ==
    /\ OnQuiz
    /\ event = "navigate"
    /\ total_q = 2
    /\ index = total_q - 1
    /\ ~ENABLED NextQuestion

----------------------------------------------------------------------------
(* handle_navigation as a function: called with any integer, not only with *)
(* the indices the buttons of the quiz page pass to it.                    *)

\* a quiz of one or two questions just started, in stored order
NavInit ==
    /\ quiz_started = TRUE
    /\ questions \in DataFrames \ {NoQuestions}
    /\ index = 0
    /\ answers = EmptyDict
    /\ time_spent = EmptyDict
    /\ submitted_q = EmptyDict
    /\ timer_choice \in TimerChoices
    /\ timer_per_question = (IF timer_choice = NoTimerChoice THEN NoneNum ELSE timer_choice)
    /\ question_start_time = 0
    /\ shuffle = FALSE
    /\ finished = FALSE
    /\ score = 0
    /\ radio = None
    /\ now = 0
    /\ open_time = EmptyDict
    /\ event = "start"
    /\ GradingIdle
    /\ TextIdle
    /\ RationaleIdle
    /\ CardsIdle

\* the quiz page is rendered, and its handlers run, only for an index that
\* names a question
Rendered == index \in 0..(total_q - 1)

\* handle_navigation(new_index) with an argument of the caller's choice
CallNavigation(new_index) ==
    /\ OnQuiz
    /\ Rendered
    /\ handle_navigation(new_index)

NavNext ==
    \/ \E new_index \in -1..total_q : CallNavigation(new_index)
    \/ Rendered /\ \E opt \in ShownOptions : SelectDraft(opt)
    \/ Rendered /\ SubmitAnswer
    \/ AdvanceClock

SpecNav == NavInit /\ [][NavNext]_vars

\* C21: handle_navigation rejects an index outside 0..total_q-1 and leaves
\* index, answers, submitted_q and time_spent as they were; the index, in
\* range before the call, is therefore in range after every call.
C21_NavigationRejectsOutOfRange ==
    [][event' = "navigate" =>
          (index \in 0..(total_q - 1) => index' \in 0..(total_q - 1))]_vars

----------------------------------------------------------------------------
(* Properties of the timer *)

\* seconds the shown question has used: stored time plus the running interval
elapsed_now == get(time_spent, index, 0) + (now - start_time)

\* C22: a timeout auto-submission happens only in a timed session, on a shown
\* question that is not submitted and whose elapsed time, stored and by the
\* wall clock, has reached the timer; without a timer a question becomes
\* submitted only by Submit Answer or Finish Quiz.
C22_TimeoutOnlyWhenDue ==
    [][/\ event' = "timeout" =>
             /\ timer_per_question # NoneNum
             /\ index \notin Submitted
             /\ elapsed_now >= timer_per_question
             /\ get(open_time, index, 0) >= timer_per_question
       /\ (SameSession /\ timer_per_question = NoneNum /\ Submitted' # Submitted)
             => event' \in {"submit", "finish"}]_vars

\* a question locked by the timeout after being open for the timer's length
C22_Witness ==
    /\ event = "timeout"
    /\ timer_per_question # NoneNum
    /\ index \in Submitted
    /\ get(open_time, index, 0) >= timer_per_question

----------------------------------------------------------------------------
(* An untimed quiz in stored order, from its start to its results page:    *)
(* selections, submissions, navigation and Finish Quiz.                     *)

\* number of questions of the untimed quiz
MaxScored == 3

ScoredFrame == [k \in 1..MaxScored |-> IF k % 2 = 1 THEN RowLetter ELSE RowText]

ScoredInit ==
    /\ quiz_started = TRUE
    /\ questions = ScoredFrame
    /\ index = 0
    /\ answers = EmptyDict
    /\ time_spent = EmptyDict
    /\ submitted_q = EmptyDict
    /\ timer_choice = NoTimerChoice
    /\ timer_per_question = NoneNum
    /\ question_start_time = 0
    /\ shuffle = FALSE
    /\ finished = FALSE
    /\ score = 0
    /\ radio = None
    /\ now = 0
    /\ open_time = EmptyDict
    /\ event = "start"
    /\ GradingIdle
    /\ TextIdle
    /\ RationaleIdle
    /\ CardsIdle

ScoredNext ==
    \/ \E opt \in ShownOptions : SelectDraft(opt)
    \/ SubmitAnswer
    \/ Previous
    \/ NextQuestion
    \/ FinishQuiz

SpecScored == ScoredInit /\ [][ScoredNext]_vars

\* C23: once every question of the session is submitted, score is the number
\* of questions whose stored answer is correct, and computing the score again
\* from the unchanged answers gives the same number.
C23_ScoreWhenAllSubmitted ==
    (quiz_started /\ Submitted = Indices) =>
        /\ score = Cardinality(CorrectSubmitted)
        /\ update_score(questions, answers) = score

\* three questions submitted, two of them correct, and the score recomputed
\* by Finish Quiz
C23_Witness ==
    /\ event = "finish"
    /\ total_q = 3
    /\ Submitted = Indices
    /\ Cardinality(CorrectSubmitted) = 2
    /\ \A i \in Indices : get(answers, i, None) # None
    /\ score = 2

----------------------------------------------------------------------------
(* Properties of the question order *)

\* b holds the rows of a, each as many times as a does
SameRecords(a, b) ==
    /\ Len(a) = Len(b)
    /\ \A k \in 1..Len(a) :
          Cardinality({j \in 1..Len(a) : a[j] = a[k]})
              = Cardinality({j \in 1..Len(b) : b[j] = a[k]})

\* C24: the start button fixes the question order: a permutation of the stored
\* rows, the stored order itself when shuffle is off; no selection,
\* navigation, submission, heartbeat, timeout, finish or passing of time
\* changes the order or the rows afterwards.
C24_OrderFixedAtStart ==
    [][/\ event' = "start" =>
             /\ SameRecords(questions, questions')
             /\ ~shuffle' => questions' = questions
       /\ event' \in {"select", "navigate", "submit", "heartbeat", "timeout",
                      "finish", "clock"} => questions' = questions]_vars

\* a two-question quiz shuffled into the reverse of the loaded order, still in
\* that order after a question was left and one was submitted
C24_Witness ==
    /\ OnQuiz
    /\ shuffle
    /\ questions = <<RowText, RowLetter>>
    /\ event = "submit"
    /\ index = 1
    /\ now > 0

----------------------------------------------------------------------------
(* One timed session with a running clock: the heartbeat reruns the script *)
(* every second while an unsubmitted question is shown, so the timeout     *)
(* check is reached whenever it is due.  Time is advanced only while it    *)
(* counts against the timer of the shown question.                         *)

\* latest time of the timed session
MaxLiveClock == 30

\* a two-question quiz just started with the first timer of the select box
LiveInit ==
    /\ quiz_started = TRUE
    /\ questions = <<RowLetter, RowText>>
    /\ index = 0
    /\ answers = EmptyDict
    /\ time_spent = EmptyDict
    /\ submitted_q = EmptyDict
    /\ timer_choice = TIMER_OPTIONS[2]
    /\ timer_per_question = timer_choice
    /\ question_start_time = 0
    /\ shuffle = FALSE
    /\ finished = FALSE
    /\ score = 0
    /\ radio = None
    /\ now = 0
    /\ open_time = EmptyDict
    /\ event = "start"
    /\ GradingIdle
    /\ TextIdle
    /\ RationaleIdle
    /\ CardsIdle

\* a second passes while the timer of the shown question is running
Tick ==
    /\ OnQuiz
    /\ time_allowed # NoneNum
    /\ ~is_submitted
    /\ remaining > 0
    /\ now + ClockStep <= MaxLiveClock
    /\ now' = now + ClockStep
    /\ open_time' = put(open_time, index, get(open_time, index, 0) + ClockStep)
    /\ event' = "clock"
    /\ UNCHANGED <<grading, texts, rationale, cards>>
    /\ UNCHANGED <<quiz_started, questions, index, answers, time_spent, submitted_q,
                   timer_per_question, question_start_time, shuffle, timer_choice,
                   finished, score, radio>>

LiveNext ==
    \/ \E opt \in ShownOptions : SelectDraft(opt)
    \/ Previous
    \/ NextQuestion
    \/ \E q_idx \in 0..(total_q - 1) : MapButton(q_idx)
    \/ SubmitAnswer
    \/ FinishQuiz
    \/ AutoAction
    \/ Heartbeat
    \/ Tick

\* the timeout run is due: AutoAction is enabled exactly in these states
AutoDue == OnQuiz /\ time_allowed # NoneNum /\ remaining <= 0 /\ ~is_submitted

\* Time passes while the timer runs, and the rerun that the heartbeat
\* schedules reaches the timeout check: a due timeout does not stay due
\* forever.  AutoAction is enabled exactly when AutoDue holds and every
\* AutoAction step ends in a state where it does not, so the last conjunct
\* is weak fairness of AutoAction.
SpecLive == LiveInit /\ [][LiveNext]_vars /\ WF_vars(Tick) /\ []<>~AutoDue

\* the shown question is question i and is not submitted
Pending(i) == OnQuiz /\ index = i /\ ~is_submitted

\* C25: in a timed session whose clock and heartbeat keep running, the session
\* does not stay forever on an unsubmitted shown question: the question is
\* submitted, or the user leaves it or finishes the quiz.
C25_ShownQuestionEventuallySubmitted ==
    \A i \in {0, 1} : Pending(i) ~> ~Pending(i)

\* the second question locked by the timeout once it was shown for the
\* timer's length, the first question having used time before it
C25_Witness ==
    /\ OnQuiz
    /\ event = "timeout"
    /\ index = 1
    /\ is_submitted
    /\ get(open_time, 1, 0) >= timer_per_question
    /\ now > get(open_time, 1, 0)

\* C26: a time flush (navigation, submit, finish, timeout) writes the stored
\* time of the question shown before the step and of no other question: no
\* step of a session changes time_spent at an index other than the index it
\* starts from.
C26_FlushWritesShownQuestionOnly ==
    [][SameSession =>
          \A i \in (DOMAIN time_spent \cup DOMAIN time_spent') \ {index} :
              get(time_spent', i, NoneNum) = get(time_spent, i, NoneNum)]_vars

\* the second question submitted after time was stored for the first one and
\* then for the second
C26_Witness ==
    /\ OnQuiz
    /\ event = "submit"
    /\ index = 1
    /\ get(time_spent, 0, 0) > 0
    /\ get(time_spent, 1, 0) > 0
    /\ get(time_spent, 0, 0) = get(open_time, 0, 0)

----------------------------------------------------------------------------
(* The feedback area of a submitted question whose saved answer is wrong:  *)
(* the rationale shown is looked up in the "Rationale (Wrong Answers)"     *)
(* cell of the row.                                                        *)

\* largest number of parts of a rationale cell
MaxParts == 2

\* the row of RowLetter with A as the correct answer
RowA == Row(Paris, Rome, NaN, NaN, <<"A">>)

\* parts of a rationale cell: the letter forms in either case, parts that
\* start with an option text, parts without a prefix
Segments ==
    { <<"O", "p", "t", "i", "o", "n", " ", "A", ":", " ", "x">>,
      <<"o", "p", "t", "i", "o", "n", " ", "a", ":", " ", "y">>,
      <<"A", ":", " ", "z">>,
      <<"a", ":", " ", "w">>,
      <<"B", ":", " ", "v">>,
      <<"O", "p", "t", "i", "o", "n", " ", "B", ":", " ", "u">>,
      <<"P", "a", "r", "i", "s", ":", " ", "p">>,
      <<"R", "o", "m", "e", ":", " ", "r">>,
      <<"P", "a", "r", "i", "s">>,
      <<"n", "o", "t", "e">> }

RECURSIVE Joined(_)
Joined(n) ==
    IF n = 1 THEN Segments
    ELSE {t \o <<" ", "|", " ">> \o sg : t \in Joined(n - 1), sg \in Segments}

RationaleTexts == UNION {Joined(n) : n \in 1..MaxParts} \cup {NaN}

FeedbackInit ==
    /\ SessionInit
    /\ TextIdle
    /\ g_row \in {RowLetter, RowA}
    /\ g_selected \in display_options(g_row)
    /\ ~is_correct(g_selected, g_row["Correct Answer"])
    /\ g_letter = find_correct_letter(g_row)
    /\ g_verdict = FALSE
    /\ g_pc = "judged"
    /\ r_text \in RationaleTexts
    /\ r_found = None
    /\ r_pc = "wrong"
    /\ CardsIdle

\* the loop over rationale_text.split("|") of the feedback area
ShowRationale ==
    /\ r_pc = "wrong"
    /\ r_found' = found_rationale(r_text, g_row, g_selected)
    /\ r_pc' = "shown"
    /\ UNCHANGED r_text
    /\ UNCHANGED <<session, grading, texts, cards>>

FeedbackNext == ShowRationale

SpecFeedback == FeedbackInit /\ [][FeedbackNext]_vars

\* the letter of the saved answer
SelectedLetter == upper(strip(split_head(g_selected)))[1]

\* the part, trimmed, starts in any case with "OPTION <letter>:" or "<letter>:"
HasLetterPrefix(part, letter) ==
    \/ startswith(upper(strip(part)), OPTION \o <<" ", letter, ":">>)
    \/ startswith(upper(strip(part)), <<letter, ":">>)

\* positions of the parts of the rationale cell that have the letter prefix
PrefixedParts ==
    IF r_text = NaN THEN {}
    ELSE {k \in 1..Len(split_pipe(r_text)) :
              HasLetterPrefix(split_pipe(r_text)[k], SelectedLetter)}

\* C27: the rationale shown for the letter of the saved answer is the text
\* after the first ":" of the first part of the cell that starts, in any
\* case, with "OPTION <letter>:" or "<letter>:"; when no part starts so, no
\* rationale is found.
C27_RationaleByLetterPrefix ==
    r_pc = "shown" =>
        IF PrefixedParts = {}
        THEN r_found = None
        ELSE LET k == CHOOSE j \in PrefixedParts : \A m \in PrefixedParts : j <= m
             IN r_found = strip(split_tail(strip(split_pipe(r_text)[k])))

----------------------------------------------------------------------------
(* Properties of the pages *)

\* C28: the pages are entered in order: the quiz page only by the start
\* button of the setup page, the results page only by Finish Quiz on the quiz
\* page, the setup page only by a successful load on the upload page or by
\* Retry Same Questions on the results page; on the setup page finished is
\* false, and without loaded questions the quiz is neither started nor
\* finished.
C28_PagesInOrder ==
    [][/\ (OnQuiz' /\ ~OnQuiz) => (OnSetup /\ event' = "start")
       /\ (OnResults' /\ ~OnResults) => (OnQuiz /\ event' = "finish")
       /\ (OnSetup' /\ ~OnSetup) =>
             \/ OnUpload /\ event' = "load"
             \/ OnResults /\ event' = "retry"
       /\ OnSetup' => ~finished'
       /\ questions' = NoQuestions => (~quiz_started' /\ ~finished')]_vars

\* the setup page entered again from the results page of a quiz in which a
\* question was submitted
C28_Witness ==
    /\ OnSetup
    /\ event = "retry"
    /\ ~finished
    /\ Submitted # {}

\* C29: in a timed quiz every question other than the shown one whose stored
\* time has reached the timer is submitted: navigating away cannot leave a
\* question timed out and unlocked.
C29_TimedOutIsLocked ==
    (OnQuiz /\ timer_per_question # NoneNum) =>
        \A i \in Indices \ {index} :
            get(time_spent, i, 0) >= timer_per_question => i \in Submitted

----------------------------------------------------------------------------
(* The flashcard viewer (src/flashcard_app.py): a deck held in             *)
(* st.session_state, shown one card at a time.  The title and the font     *)
(* size of the page are left out.                                          *)

\* largest number of cards in an uploaded file
MaxCards == 4

\* the k-th card of a file: its question and its answer
Card(k) == [question |-> k, answer |-> -k]

\* result of load_flashcards on a file of n valid cards; the empty list for
\* a file without valid cards
Deck(n) == [k \in 1..n |-> Card(k)]

FileDecks == {Deck(n) : n \in 0..MaxCards}

\* the deck page is shown
OnDeck == file_loaded /\ flashcards # <<>>

UnchangedQuiz == UNCHANGED <<session, grading, texts, rationale>>

\* a file is chosen on the upload page
LoadDeck(deck) ==
    /\ ~OnDeck
    /\ IF deck # <<>>
       THEN /\ flashcards' = deck
            /\ original_flashcards' = deck
            /\ aliased' = FALSE
            /\ file_loaded' = TRUE
            /\ current_index' = 0
            /\ show_answer' = FALSE
       ELSE UNCHANGED cards
    /\ UnchangedQuiz

\* the Upload New button
UploadNew ==
    /\ OnDeck
    /\ file_loaded' = FALSE
    /\ flashcards' = <<>>
    /\ original_flashcards' = <<>>
    /\ aliased' = FALSE
    /\ UNCHANGED <<current_index, show_answer>>
    /\ UnchangedQuiz

\* next_card without the test for the last card
next_card_unguarded ==
    /\ OnDeck
    /\ current_index' = current_index + 1
    /\ show_answer' = FALSE
    /\ UNCHANGED <<flashcards, original_flashcards, file_loaded, aliased>>
    /\ UnchangedQuiz

next_card ==
    /\ OnDeck
    /\ IF current_index < Len(flashcards) - 1
       THEN /\ current_index' = current_index + 1
            /\ show_answer' = FALSE
       ELSE UNCHANGED <<current_index, show_answer>>
    /\ UNCHANGED <<flashcards, original_flashcards, file_loaded, aliased>>
    /\ UnchangedQuiz

previous_card ==
    /\ OnDeck
    /\ IF current_index > 0
       THEN /\ current_index' = current_index - 1
            /\ show_answer' = FALSE
       ELSE UNCHANGED <<current_index, show_answer>>
    /\ UNCHANGED <<flashcards, original_flashcards, file_loaded, aliased>>
    /\ UnchangedQuiz

toggle_answer ==
    /\ OnDeck
    /\ show_answer' = ~show_answer
    /\ UNCHANGED <<flashcards, original_flashcards, current_index, file_loaded, aliased>>
    /\ UnchangedQuiz

restart ==
    /\ OnDeck
    /\ current_index' = 0
    /\ show_answer' = FALSE
    /\ UNCHANGED <<flashcards, original_flashcards, file_loaded, aliased>>
    /\ UnchangedQuiz

\* random.shuffle(flashcards) reorders the list object in place: every name
\* bound to that object sees the order it chooses
shuffle_cards(order) ==
    /\ OnDeck
    /\ order \in Shuffles(flashcards)
    /\ flashcards' = order
    /\ original_flashcards' = (IF aliased THEN order ELSE original_flashcards)
    /\ current_index' = 0
    /\ show_answer' = FALSE
    /\ UNCHANGED <<file_loaded, aliased>>
    /\ UnchangedQuiz

\* reset_order binding flashcards to the original list itself, not to a copy
reset_order_without_copy ==
    /\ OnDeck
    /\ IF original_flashcards # <<>>
       THEN /\ flashcards' = original_flashcards
            /\ aliased' = TRUE
            /\ current_index' = 0
            /\ show_answer' = FALSE
       ELSE UNCHANGED <<flashcards, aliased, current_index, show_answer>>
    /\ UNCHANGED <<original_flashcards, file_loaded>>
    /\ UnchangedQuiz

\* flashcards becomes original_flashcards.copy(), a list object of its own
reset_order ==
    /\ OnDeck
    /\ IF original_flashcards # <<>>
       THEN /\ flashcards' = original_flashcards
            /\ aliased' = FALSE
            /\ current_index' = 0
            /\ show_answer' = FALSE
       ELSE UNCHANGED <<flashcards, aliased, current_index, show_answer>>
    /\ UNCHANGED <<original_flashcards, file_loaded>>
    /\ UnchangedQuiz

CardsNext ==
    \/ \E deck \in FileDecks : LoadDeck(deck)
    \/ UploadNew
    \/ next_card
    \/ previous_card
    \/ toggle_answer
    \/ restart
    \/ \E order \in Shuffles(flashcards) : shuffle_cards(order)
    \/ reset_order

SpecCards == Init /\ [][CardsNext]_vars

\* C30: on the deck page 0 <= current_index < len(flashcards) after every
\* operation, and every operation that changes current_index leaves
\* show_answer false.
C30_CardIndexInRange ==
    [][/\ OnDeck' => (0 <= current_index' /\ current_index' < Len(flashcards'))
       /\ current_index' # current_index => ~show_answer']_vars

\* the last card of a full deck, question side up, in a shuffled order
C30_Witness ==
    /\ OnDeck
    /\ Len(flashcards) = MaxCards
    /\ current_index = Len(flashcards) - 1
    /\ ~show_answer
    /\ flashcards # original_flashcards

\* the two decks hold the same cards, each the same number of times
SameCards(a, b) ==
    /\ Len(a) = Len(b)
    /\ \A c \in {a[k] : k \in DOMAIN a} \cup {b[k] : k \in DOMAIN b} :
          Cardinality({k \in DOMAIN a : a[k] = c})
              = Cardinality({k \in DOMAIN b : b[k] = c})

\* C31: shuffle_cards leaves the deck a permutation of itself (same cards,
\* same count) and leaves original_flashcards as it was, and reset_order,
\* after any number of shuffles, puts the deck back in the order in which
\* the cards were loaded.
C31_ShuffleKeepsOriginal ==
    [][/\ shuffle_cards(flashcards')
            => /\ SameCards(flashcards', flashcards)
               /\ original_flashcards' = original_flashcards
       /\ reset_order => flashcards' = Deck(Len(flashcards))]_vars

\* a full deck that shuffle_cards has put in another order, shown from its
\* first card, while original_flashcards is still in the loaded order
C31_Witness ==
    /\ OnDeck
    /\ Len(flashcards) = MaxCards
    /\ flashcards # original_flashcards
    /\ original_flashcards = Deck(MaxCards)
    /\ current_index = 0

====
